---- MODULE Spec2Model ----
(***************************************************************************)
(* A model of lsp-mcp-rs: the per-backend protocol client (src/client.rs)  *)
(* and the backend pool manager (src/main.rs, src/config.rs).              *)
(*                                                                         *)
(* SpecClient:  one LspClient, its reader task, the backend process as the *)
(*              environment, and concurrent calls of the public operations.*)
(* SpecOps:     the same client with one caller at a time.                 *)
(* SpecStall:   the same client with a backend that may stop reading.      *)
(* SpecReader:  the reader task of the client, byte by byte.               *)
(* SpecPool:    one LspManager and concurrent get_client calls.            *)
(* SpecFraming: write_message_async and read_message_async on one stream   *)
(*              (src/framed_stdio.rs).                                     *)
(***************************************************************************)
EXTENDS Integers, Sequences, FiniteSets, TLC

\* ------------------------------------------------------------------ bounds
\* Calls of public client operations over one run of SpecClient.
MaxCalls == 2
\* Calls of client operations that may be in progress at the same time.
MaxConcurrent == 2
\* get_client calls over one run of SpecPool.
MaxGets == 3
\* Messages written to one stream, and calls of read_message_async on it.
MaxFrames == 2
MaxReads == 3
\* Length of the message bodies enumerated in full.
MaxBody == 2
\* Callers writing to one backend's stdin at a time.
MaxWriters == 3
\* Milliseconds that pass in one step of the clock.
TickMs == 500
\* Lines the caller writes to the front end.
MaxLines == 3

\* --------------------------------------------------------------- variables
VARIABLES
    \* LspClient fields (client.rs:16-24)
    process,        \* Option<Child>: TRUE when Some
    stdin,          \* Option<ChildStdin>: TRUE when Some
    pending,        \* HashMap<i64, oneshot::Sender>: id -> channel of the sender
    next_id,        \* AtomicI64
    initialized,    \* Mutex<bool>
    root_uri,       \* Option<Uri>: NoUri or a uri
    \* the tasks around the client
    reader,         \* reader task: "unstarted", "running", "returned"
    backend,        \* the child process: "none", "running", "exited"
    chan,           \* oneshot channels by request id: [rx, val]
    wire,           \* frames written to the backend's stdin, in order
    calls,          \* the calls of public operations so far, with their position
    \* history
    issued,         \* the ids fetch_add returned, in the order of the calls
    timedOut,       \* ids whose send_request returned the timed-out error
    late,           \* ids whose response the reader handled after the time-out
    settled,        \* a read operation has returned Ok and no shutdown ran since
    \* LspManager (main.rs:63-100)
    clients,        \* HashMap<String, Arc<LspClient>>: name -> client instance
    clientsLock,    \* holder of the clients mutex: a get_client call or NoCall
    gets,           \* the get_client calls so far, with their position
    spawned,        \* processes spawned so far: sequence of backend names
    newClients,     \* LspClient instances created so far (Arc::new)
    order,          \* iteration order of config.servers (a HashMap)
    \* the byte streams (client.rs:57-101, framed_stdio.rs)
    input,          \* the bytes a reader's stream holds, then end of stream
    content_length, \* Option<usize> of the reader task: NoLen or a length
    offset,         \* how many bytes of input have been read
    rstate,         \* where the reader task is in its loop: "headers", "body"
    out,            \* what the calls of read_message_async returned, in order
    sent,           \* the messages written to the stream: body, bytes written
    closed,         \* the writer has closed the stream
    pipeFull,       \* the backend has stopped reading and its stdin pipe is full
    \* the client's surroundings
    clientName,     \* LspClient.name: the backend the client was created for
    clock,          \* milliseconds since the requests in flight were written
    fs,             \* the file system: the paths that exist
    \* the writes to the backend's stdin, piece by piece (client.rs:118-126)
    stdinLock,      \* holder of the stdin mutex: a writer or NoCall
    writers,        \* the callers of send_request and send_notification
    chunks,         \* the pieces written to the pipe, in order: writer, piece
    \* the front end's loop over its own stdin and stdout (main.rs:483-505)
    mcpIn,          \* the bytes the caller has written to the front end's stdin
    mcpPos,         \* how many of them the loop has read
    mcpEof,         \* the caller has closed the front end's stdin
    mcpSent,        \* the lines the caller wrote, in order
    mcpOut,         \* the responses written to stdout, in order
    stdoutBroken,   \* writes to stdout fail
    mainLoop        \* "running" or "exited"

clientVars == <<process, stdin, pending, next_id, initialized, root_uri, reader,
                backend, chan, wire, calls, issued, timedOut, late, settled>>
poolVars == <<clients, clientsLock, gets, spawned, newClients, order>>
frameVars == <<input, offset, content_length, rstate, out, sent, closed>>
envVars == <<clientName, clock, fs>>
writeVars == <<stdinLock, writers, chunks>>
frontVars == <<mcpIn, mcpPos, mcpEof, mcpSent, mcpOut, stdoutBroken, mainLoop>>
vars == <<clientVars, poolVars, frameVars, pipeFull, envVars, writeVars, frontVars>>

\* ------------------------------------------------------- values and helpers
NoId == 0
NoCall == 0
NoUri == <<>>
\* Option::None of a content length.
NoLen == -1
\* JsonRpcResponse as the reader decodes it: id, result and error are Options.
NoResp == [id |-> NoId, result |-> FALSE, error |-> FALSE]
Responses == [id : Nat, result : BOOLEAN, error : BOOLEAN]

\* The file system the client looks at when nothing else is said.
DefaultFs == { <<"proj", ".git">>, <<"proj", "src", "a.rs">>, <<"tmp", "b.rs">> }
\* The paths that exist.
FsEntries == fs
\* The files the calls are about; the last one cannot be read.
ClientFiles == { <<"proj", "src", "a.rs">>, <<"tmp", "gone.rs">> }

ReadOps == {"hover", "definition", "references", "document_symbols", "diagnostics"}
TypedOps == {"hover", "definition", "references", "document_symbols"}
Ops == ReadOps \cup {"shutdown"}

\* The method each typed operation sends.
MethodOf(op) ==
    CASE op = "hover" -> "textDocument/hover"
      [] op = "definition" -> "textDocument/definition"
      [] op = "references" -> "textDocument/references"
      [] op = "document_symbols" -> "textDocument/documentSymbol"
      [] OTHER -> "none"

\* Path::parent: None (here NoPath) for the root.
NoPath == <<"<none>">>
Parent(path) == IF path = <<>> THEN NoPath ELSE SubSeq(path, 1, Len(path) - 1)

markers == <<".git", "Cargo.toml", "package.json", "pyproject.toml", "go.mod",
             ".luarc.json", "compile_commands.json">>

\* A walk that knows one marker only.
HasGit(dir) == Append(dir, ".git") \in FsEntries

HasMarker(dir) == \E i \in 1..Len(markers) : Append(dir, markers[i]) \in FsEntries

RECURSIVE WalkUp(_)
WalkUp(current) ==
    IF current = NoPath THEN NoPath
    ELSE IF HasMarker(current) THEN current
    ELSE WalkUp(Parent(current))

find_project_root(path) == WalkUp(Parent(path))

\* The root ensure_initialized passes to initialize.
RootFor(file) ==
    IF find_project_root(file) # NoPath THEN find_project_root(file)
    ELSE IF Parent(file) # NoPath THEN Parent(file) ELSE <<>>

path_to_uri(path) == <<"file://">> \o path

\* A send that stores the value whether or not the receiver is alive.
OneshotSendAlways(ch, v) == [ch EXCEPT !.val = v]

\* oneshot::Sender::send: fails, dropping the value, when the receiver is gone.
OneshotSend(ch, v) == IF ch.rx THEN [ch EXCEPT !.val = v] ELSE ch

\* A fetch_add that does not store the sum.
FetchAddStuck(n) == n

\* AtomicI64::fetch_add(1): the value stored after the call.
FetchAdd(n) == n + 1

\* A reader that completes the oldest entry, whatever the response's id.
ReaderLookupOldest(table, id) ==
    IF DOMAIN table = {} THEN NoId
    ELSE CHOOSE x \in DOMAIN table : \A y \in DOMAIN table : x <= y

\* The reader's pending.remove(&id): the key whose sender is taken, or NoId.
ReaderLookup(table, id) == IF id \in DOMAIN table THEN id ELSE NoId

\* What a typed operation returns for a response (hover, definition, ...).
TypedResult(resp) == IF resp.result THEN "Ok(Some)" ELSE "Ok(None)"

\* An initialize that does not look at the response's error.
InitializeNeverFails(resp) == FALSE

\* Whether initialize takes a response as a failure.
InitializeFails(resp) == resp.error

\* An initialize that leaves the flag as it was.
FlagNeverSet == FALSE

\* The value initialize stores in the flag after the handshake.
FlagAfterInitialize == TRUE

\* A removal that leaves the key in.
WithoutNothing(f, k) == f

\* A function without one key (HashMap::remove).
Without(f, k) == [x \in DOMAIN f \ {k} |-> f[x]]
\* A map that forgets its other keys when one is set.
WithOnly(f, k, v) == [x \in {k} |-> v]

\* A function with one key set.
With(f, k, v) == [x \in DOMAIN f \cup {k} |-> IF x = k THEN v ELSE f[x]]

Active == {k \in 1..Len(calls) : calls[k].pc # "done"}
ShutdownActive == \E k \in Active : calls[k].op = "shutdown"

\* write_all on stdin cannot go on: the pipe to a running backend is full.
\* The writer waits holding the stdin lock, and the other writers wait for it.
WriteBlocks == stdin /\ backend = "running" /\ pipeFull

Msg(k, method, id) == [call |-> k, method |-> method, id |-> id]

\* The request the call sends in its current stage.
RequestMethod(c) ==
    CASE c.stage = "init" -> "initialize"
      [] c.stage = "shutdown" -> "shutdown"
      [] OTHER -> MethodOf(c.op)

\* A call that has returned `ret`; `resp` is the response it returned on. Its
\* locals are gone.
Done(c, ret, resp) ==
    [op |-> c.op, file |-> <<>>, stage |-> "done", pc |-> "done", id |-> NoId,
     resp |-> [resp EXCEPT !.id = NoId], ret |-> ret, sawInit |-> "unknown",
     seq |-> FALSE, clean |-> FALSE]

\* An initialize that goes on after its request has failed.
FailSwallowed(c, e) ==
    IF c.stage = "shutdown" THEN [c EXCEPT !.pc = "exit", !.resp = NoResp]
    ELSE IF c.stage = "init" THEN [c EXCEPT !.pc = "notify", !.resp = NoResp]
    ELSE Done(c, e, NoResp)

\* send_request returns Err: `?` in the operations, `let _ =` in shutdown.
Fail(c, e) ==
    IF c.stage = "shutdown" THEN [c EXCEPT !.pc = "exit", !.resp = NoResp]
    ELSE Done(c, e, NoResp)

\* --------------------------------------------------------- client: actions
\* A call moves on to c. A read operation that returns Ok, with no shutdown
\* begun since it began, settles the client.
Returns(k, c) ==
    /\ calls' = [calls EXCEPT ![k] = c]
    /\ settled' = IF c.pc = "done" /\ c.op \in ReadOps /\ calls[k].clean
                     /\ c.ret \in {"Ok(Some)", "Ok(None)", "Ok([])"}
                  THEN TRUE ELSE settled

\* LspClient::start: spawn the process, keep its handles, spawn the reader.
Start ==
    /\ reader = "unstarted"
    /\ process' = TRUE
    /\ stdin' = TRUE
    /\ reader' = "running"
    /\ backend' = "running"
    /\ UNCHANGED <<pending, next_id, initialized, root_uri, chan, wire, calls,
                   issued, timedOut, late, settled>>
    /\ UNCHANGED <<poolVars, frameVars, pipeFull, envVars, writeVars, frontVars>>

\* hover, definition, references, document_symbols, diagnostics are called.
BeginRead(op, file, limit) ==
    /\ reader # "unstarted"
    /\ Len(calls) < MaxCalls
    /\ Cardinality(Active) < limit
    /\ calls' = Append(calls, [op |-> op, file |-> file, stage |-> "ensure",
                               pc |-> "ensure", id |-> NoId, resp |-> NoResp,
                               ret |-> "none", sawInit |-> "unknown",
                               seq |-> settled, clean |-> ~ShutdownActive])
    /\ UNCHANGED <<process, stdin, pending, next_id, initialized, root_uri, reader,
                   backend, chan, wire, issued, timedOut, late, settled>>
    /\ UNCHANGED <<poolVars, frameVars, pipeFull, envVars, writeVars, frontVars>>

\* shutdown is called.
BeginShutdown(limit) ==
    /\ reader # "unstarted"
    /\ Len(calls) < MaxCalls
    /\ Cardinality(Active) < limit
    /\ calls' = Append([k \in 1..Len(calls) |->
                           IF calls[k].pc = "done" THEN calls[k]
                           ELSE [calls[k] EXCEPT !.seq = FALSE, !.clean = FALSE]],
                       [op |-> "shutdown", file |-> <<>>, stage |-> "shutdown",
                        pc |-> "alloc", id |-> NoId, resp |-> NoResp,
                        ret |-> "none", sawInit |-> "unknown",
                        seq |-> FALSE, clean |-> FALSE])
    /\ settled' = FALSE
    /\ UNCHANGED <<process, stdin, pending, next_id, initialized, root_uri, reader,
                   backend, chan, wire, issued, timedOut, late>>
    /\ UNCHANGED <<poolVars, frameVars, pipeFull, envVars, writeVars, frontVars>>

\* ensure_initialized: read the flag; when it is false, find the root and
\* call initialize, which stores the root's uri.
EnsureInitialized(k) ==
    /\ calls[k].pc = "ensure"
    /\ IF initialized
       THEN /\ calls' = [calls EXCEPT ![k].sawInit = "yes", ![k].stage = "open",
                                      ![k].pc = "open"]
            /\ UNCHANGED root_uri
       ELSE /\ calls' = [calls EXCEPT ![k].sawInit = "no", ![k].stage = "init",
                                      ![k].pc = "alloc"]
            /\ root_uri' = path_to_uri(RootFor(calls[k].file))
    /\ UNCHANGED <<process, stdin, pending, next_id, initialized, reader,
                   backend, chan, wire, issued, timedOut, late, settled>>
    /\ UNCHANGED <<poolVars, frameVars, pipeFull, envVars, writeVars, frontVars>>

\* send_request: allocate the id.
Allocate(k) ==
    /\ calls[k].pc = "alloc"
    /\ next_id' = FetchAdd(next_id)
    /\ calls' = [calls EXCEPT ![k].id = next_id, ![k].pc = "insert"]
    /\ issued' = Append(issued, next_id)
    /\ UNCHANGED <<process, stdin, pending, initialized, root_uri, reader,
                   backend, chan, wire, timedOut, late, settled>>
    /\ UNCHANGED <<poolVars, frameVars, pipeFull, envVars, writeVars, frontVars>>

\* A send_request that creates the channel and goes on to write without
\* inserting the sender.
InsertNoEntry(k) ==
    /\ calls[k].pc = "insert"
    /\ chan' = With(chan, calls[k].id, [rx |-> TRUE, val |-> NoResp])
    /\ calls' = [calls EXCEPT ![k].pc = "write"]
    /\ UNCHANGED <<process, stdin, pending, next_id, initialized, root_uri, reader,
                   backend, wire, issued, timedOut, late, settled>>
    /\ UNCHANGED <<poolVars, frameVars, pipeFull, envVars, writeVars, frontVars>>

\* send_request: create the channel and insert its sender.
Insert(k) ==
    /\ calls[k].pc = "insert"
    /\ chan' = With(chan, calls[k].id, [rx |-> TRUE, val |-> NoResp])
    /\ pending' = With(pending, calls[k].id, calls[k].id)
    /\ calls' = [calls EXCEPT ![k].pc = "write"]
    /\ UNCHANGED <<process, stdin, next_id, initialized, root_uri, reader,
                   backend, wire, issued, timedOut, late, settled>>
    /\ UNCHANGED <<poolVars, frameVars, pipeFull, envVars, writeVars, frontVars>>

\* send_request: write the frame under the stdin lock. An early return drops
\* the receiver and leaves the table as it is.
WriteRequest(k) ==
    LET c == calls[k] IN
    /\ c.pc = "write"
    /\ ~WriteBlocks
    /\ IF stdin /\ backend = "running"
       THEN /\ wire' = Append(wire, Msg(k, RequestMethod(c), c.id))
            /\ calls' = [calls EXCEPT ![k].pc = "wait"]
            /\ UNCHANGED chan
       ELSE /\ calls' = [calls EXCEPT ![k] =
                            Fail(c, IF stdin THEN "Err(io)" ELSE "Err(not running)")]
            /\ chan' = [chan EXCEPT ![c.id].rx = FALSE]
            /\ UNCHANGED wire
    /\ UNCHANGED <<process, stdin, pending, next_id, initialized, root_uri, reader,
                   backend, issued, timedOut, late, settled>>
    /\ UNCHANGED <<poolVars, frameVars, pipeFull, envVars, writeVars, frontVars>>

\* send_request: the receiver yields the response.
Receive(k) ==
    LET c == calls[k]
        r == chan[c.id].val
    IN
    /\ c.pc = "wait"
    /\ r # NoResp
    /\ chan' = [chan EXCEPT ![c.id] = [rx |-> FALSE, val |-> NoResp]]
    /\ Returns(k,
          CASE c.stage = "init" ->
                 IF InitializeFails(r)
                 THEN Done(c, "Err(initialize failed)", r)
                 ELSE [c EXCEPT !.pc = "notify", !.resp = r]
            [] c.stage = "shutdown" -> [c EXCEPT !.pc = "exit", !.resp = r]
            [] OTHER -> Done(c, TypedResult(r), r))
    /\ UNCHANGED <<process, stdin, pending, next_id, initialized, root_uri, reader,
                   backend, wire, issued, timedOut, late>>
    /\ UNCHANGED <<poolVars, frameVars, pipeFull, envVars, writeVars, frontVars>>

\* send_request: the 30 s pass first; the receiver is dropped, the entry stays.
Timeout(k) ==
    LET c == calls[k] IN
    /\ c.pc = "wait"
    /\ chan[c.id].val = NoResp
    /\ chan' = [chan EXCEPT ![c.id].rx = FALSE]
    /\ timedOut' = timedOut \cup {c.id}
    /\ calls' = [calls EXCEPT ![k] = Fail(c, "Err(timeout)")]
    /\ UNCHANGED <<process, stdin, pending, next_id, initialized, root_uri, reader,
                   backend, wire, issued, late, settled>>
    /\ UNCHANGED <<poolVars, frameVars, pipeFull, envVars, writeVars, frontVars>>

\* An initialize that goes on to the flag without writing the notification.
NotifySkipped(k) ==
    /\ calls[k].pc = "notify"
    /\ calls' = [calls EXCEPT ![k].pc = "set_flag", ![k].resp = NoResp]
    /\ UNCHANGED <<process, stdin, pending, next_id, initialized, root_uri, reader,
                   backend, chan, wire, issued, timedOut, late, settled>>
    /\ UNCHANGED <<poolVars, frameVars, pipeFull, envVars, writeVars, frontVars>>

\* initialize: the initialized notification.
NotifyInitialized(k) ==
    LET c == calls[k] IN
    /\ c.pc = "notify"
    /\ ~WriteBlocks
    /\ IF stdin /\ backend # "running"
       THEN /\ calls' = [calls EXCEPT ![k] = Fail(c, "Err(io)")]
            /\ UNCHANGED wire
       ELSE /\ wire' = IF stdin THEN Append(wire, Msg(k, "initialized", NoId)) ELSE wire
            /\ calls' = [calls EXCEPT ![k].pc = "set_flag", ![k].resp = NoResp]
    /\ UNCHANGED <<process, stdin, pending, next_id, initialized, root_uri, reader,
                   backend, chan, issued, timedOut, late, settled>>
    /\ UNCHANGED <<poolVars, frameVars, pipeFull, envVars, writeVars, frontVars>>

\* initialize: set the flag.
SetInitialized(k) ==
    /\ calls[k].pc = "set_flag"
    /\ initialized' = FlagAfterInitialize
    /\ calls' = [calls EXCEPT ![k].stage = "open", ![k].pc = "open"]
    /\ UNCHANGED <<process, stdin, pending, next_id, root_uri, reader,
                   backend, chan, wire, issued, timedOut, late, settled>>
    /\ UNCHANGED <<poolVars, frameVars, pipeFull, envVars, writeVars, frontVars>>

\* open_file: read the file, send textDocument/didOpen; diagnostics ends here.
OpenFile(k) ==
    LET c == calls[k] IN
    /\ c.pc = "open"
    /\ c.file \in FsEntries => ~WriteBlocks
    /\ IF c.file \notin FsEntries
       THEN /\ Returns(k, Done(c, "Err(file)", NoResp))
            /\ UNCHANGED wire
       ELSE IF stdin /\ backend # "running"
       THEN /\ Returns(k, Done(c, "Err(io)", NoResp))
            /\ UNCHANGED wire
       ELSE /\ wire' = IF stdin THEN Append(wire, Msg(k, "textDocument/didOpen", NoId))
                       ELSE wire
            /\ Returns(k, IF c.op = "diagnostics"
                          THEN Done(c, "Ok([])", NoResp)
                          ELSE [c EXCEPT !.stage = "op", !.pc = "alloc"])
    /\ UNCHANGED <<process, stdin, pending, next_id, initialized, root_uri, reader,
                   backend, chan, issued, timedOut, late>>
    /\ UNCHANGED <<poolVars, frameVars, pipeFull, envVars, writeVars, frontVars>>

\* shutdown: the exit notification, its failure ignored.
NotifyExit(k) ==
    /\ calls[k].pc = "exit"
    /\ ~WriteBlocks
    /\ wire' = IF stdin /\ backend = "running"
               THEN Append(wire, Msg(k, "exit", NoId)) ELSE wire
    /\ calls' = [calls EXCEPT ![k].pc = "kill", ![k].resp = NoResp]
    /\ UNCHANGED <<process, stdin, pending, next_id, initialized, root_uri, reader,
                   backend, chan, issued, timedOut, late, settled>>
    /\ UNCHANGED <<poolVars, frameVars, pipeFull, envVars, writeVars, frontVars>>

\* shutdown: take the process handle and kill the child.
Kill(k) ==
    /\ calls[k].pc = "kill"
    /\ process' = FALSE
    /\ backend' = IF process THEN "exited" ELSE backend
    /\ calls' = [calls EXCEPT ![k].pc = "clear"]
    /\ UNCHANGED <<stdin, pending, next_id, initialized, root_uri, reader,
                   chan, wire, issued, timedOut, late, settled>>
    /\ UNCHANGED <<poolVars, frameVars, pipeFull, envVars, writeVars, frontVars>>

\* shutdown: clear the flag and return Ok.
ClearInitialized(k) ==
    /\ calls[k].pc = "clear"
    /\ initialized' = FALSE
    /\ calls' = [calls EXCEPT ![k] = Done(@, "Ok(())", NoResp)]
    /\ UNCHANGED <<process, stdin, pending, next_id, root_uri, reader,
                   backend, chan, wire, issued, timedOut, late, settled>>
    /\ UNCHANGED <<poolVars, frameVars, pipeFull, envVars, writeVars, frontVars>>

\* The reader task decodes one response frame and completes its entry.
ReaderHandle(resp) ==
    LET key == ReaderLookup(pending, resp.id) IN
    /\ reader = "running"
    /\ IF resp.id # NoId /\ key # NoId
       THEN /\ pending' = Without(pending, key)
            /\ chan' = [chan EXCEPT ![pending[key]] = OneshotSend(@, resp)]
       ELSE UNCHANGED <<pending, chan>>
    /\ late' = IF resp.id \in timedOut THEN late \cup {resp.id} ELSE late
    /\ UNCHANGED <<process, stdin, next_id, initialized, root_uri, reader,
                   backend, wire, calls, issued, timedOut, settled>>
    /\ UNCHANGED <<poolVars, frameVars, pipeFull, envVars, writeVars, frontVars>>

\* The reader task reads end of stream and returns.
ReaderEof ==
    /\ reader = "running"
    /\ backend = "exited"
    /\ reader' = "returned"
    /\ UNCHANGED <<process, stdin, pending, next_id, initialized, root_uri,
                   backend, chan, wire, calls, issued, timedOut, late, settled>>
    /\ UNCHANGED <<poolVars, frameVars, pipeFull, envVars, writeVars, frontVars>>

\* The backend process exits on its own.
BackendExits ==
    /\ backend = "running"
    /\ backend' = "exited"
    /\ UNCHANGED <<process, stdin, pending, next_id, initialized, root_uri,
                   reader, chan, wire, calls, issued, timedOut, late, settled>>
    /\ UNCHANGED <<poolVars, frameVars, pipeFull, envVars, writeVars, frontVars>>

\* The responses the backend may write: any id up to the next one, or none,
\* with or without a result and an error. (The payload of a response no entry
\* waits for is never looked at: one payload stands for all.)
BackendResponses ==
    {r \in [id : 0..next_id, result : BOOLEAN, error : BOOLEAN] :
        r.id \notin DOMAIN pending => ~r.result /\ ~r.error}

\* The steps of one client whose callers use the read operations `ops`, at
\* most `limit` calls at a time.
ClientNext(ops, limit) ==
    \/ Start
    \/ \E op \in ops, file \in ClientFiles : BeginRead(op, file, limit)
    \/ BeginShutdown(limit)
    \/ \E k \in 1..Len(calls) : EnsureInitialized(k)
    \/ \E k \in 1..Len(calls) : Allocate(k)
    \/ \E k \in 1..Len(calls) : Insert(k)
    \/ \E k \in 1..Len(calls) : WriteRequest(k)
    \/ \E k \in 1..Len(calls) : Receive(k)
    \/ \E k \in 1..Len(calls) : Timeout(k)
    \/ \E k \in 1..Len(calls) : NotifyInitialized(k)
    \/ \E k \in 1..Len(calls) : SetInitialized(k)
    \/ \E k \in 1..Len(calls) : OpenFile(k)
    \/ \E k \in 1..Len(calls) : NotifyExit(k)
    \/ \E k \in 1..Len(calls) : Kill(k)
    \/ \E k \in 1..Len(calls) : ClearInitialized(k)
    \/ \E resp \in BackendResponses : ReaderHandle(resp)
    \/ ReaderEof
    \/ BackendExits

\* Concurrent callers; hover stands for the four typed operations, whose
\* code differs in the method and the parameters they send.
ConcurrentOps == {"hover", "diagnostics"}

InitClient ==
    /\ process = FALSE
    /\ stdin = FALSE
    /\ pending = <<>>
    /\ next_id = 1
    /\ initialized = FALSE
    /\ root_uri = NoUri
    /\ reader = "unstarted"
    /\ backend = "none"
    /\ chan = <<>>
    /\ wire = <<>>
    /\ calls = <<>>
    /\ issued = <<>>
    /\ timedOut = {}
    /\ late = {}
    /\ settled = FALSE
    /\ clients = <<>>
    /\ clientsLock = NoCall
    /\ gets = <<>>
    /\ spawned = <<>>
    /\ newClients = 0
    /\ order = <<>>
    /\ input = <<>>
    /\ content_length = NoLen
    /\ offset = 0
    /\ rstate = "headers"
    /\ out = <<>>
    /\ sent = <<>>
    /\ closed = FALSE
    /\ pipeFull = FALSE
    /\ clientName = "rust"
    /\ clock = 0
    /\ fs = DefaultFs
    /\ stdinLock = NoCall
    /\ writers = <<>>
    /\ chunks = <<>>
    /\ mcpIn = <<>>
    /\ mcpPos = 0
    /\ mcpEof = FALSE
    /\ mcpSent = <<>>
    /\ mcpOut = <<>>
    /\ stdoutBroken = FALSE
    /\ mainLoop = "running"

SpecClient == InitClient /\ [][ClientNext(ConcurrentOps, MaxConcurrent)]_vars

\* One caller at a time, every operation.
SpecOps == InitClient /\ [][ClientNext(ReadOps, 1)]_vars

\* ------------------------------------------------------------------- pool
\* Strings are sequences of characters. char::to_lowercase on the letters used.
LowerChar(ch) ==
    CASE ch = "R" -> "r"
      [] ch = "S" -> "s"
      [] ch = "L" -> "l"
      [] ch = "U" -> "u"
      [] ch = "A" -> "a"
      [] ch = "X" -> "x"
      [] ch = "C" -> "c"
      [] ch = "O" -> "o"
      [] ch = "N" -> "n"
      [] ch = "T" -> "t"
      [] ch = "E" -> "e"
      [] ch = "G" -> "g"
      [] ch = "H" -> "h"
      [] OTHER -> ch

to_lowercase(str) == [i \in 1..Len(str) |-> LowerChar(str[i])]

\* Option::None of an extension and of a server.
NoExt == <<"<none>">>
NoServer == "<none>"

\* An extension that takes a name's leading dot for the separator.
extensionOfHidden(name) ==
    LET dots == {i \in 1..Len(name) : name[i] = "."} IN
    IF dots = {} THEN NoExt
    ELSE LET last == CHOOSE i \in dots : \A j \in dots : j <= i IN
         SubSeq(name, last + 1, Len(name))

\* Path::extension of a file name: what follows the last dot, unless there is
\* no dot or the only dot starts the name.
extension(name) ==
    LET dots == {i \in 1..Len(name) : name[i] = "."} IN
    IF name = <<".", ".">> \/ dots = {} THEN NoExt
    ELSE LET last == CHOOSE i \in dots : \A j \in dots : j <= i IN
         IF last = 1 THEN NoExt ELSE SubSeq(name, last + 1, Len(name))

\* Config.servers: the extensions each backend claims.
ServerNames == {"rust", "lua"}
Extensions(name) ==
    IF name = "rust" THEN << <<".", "r", "s">>, <<".", "H">> >>
    ELSE << <<".", "L", "u", "a">>, <<".", "l">>, <<".", "h">> >>

\* The iteration orders a HashMap of the servers may have.
Orders == {<<"rust", "lua">>, <<"lua", "rust">>}

\* A comparison that lowercases the file's extension only.
ClaimsExact(name, ext_lower) ==
    \E i \in 1..Len(Extensions(name)) : Extensions(name)[i] = ext_lower

\* ServerConfig.extensions.iter().any(|e| e.to_lowercase() == ext_lower)
Claims(name, ext_lower) ==
    \E i \in 1..Len(Extensions(name)) : to_lowercase(Extensions(name)[i]) = ext_lower

\* Config::server_for_extension: the first server, in iteration order, that
\* claims the extension.
server_for_extension(ext, ord) ==
    LET ext_lower == to_lowercase(ext)
        hits == {i \in 1..Len(ord) : Claims(ord[i], ext_lower)}
    IN IF hits = {} THEN NoServer
       ELSE ord[CHOOSE i \in hits : \A j \in hits : i <= j]

\* LspManager::server_for_file
server_for_file(name, ord) ==
    IF extension(name) = NoExt THEN NoServer
    ELSE server_for_extension(<<".">> \o extension(name), ord)

\* The file names get_client is called with.
PoolFiles == { <<"a", ".", "r", "s">>, <<"a", ".", "R", "S">>, <<"b", ".", "l", "u", "a">>,
               <<"b", ".", "L", "U", "A">>, <<"c", ".", "h">>,
               <<"n", ".", "x">>, <<"m">>, <<".", "r", "s">> }

\* A lock that never waits.
LockNeverWaits(holder) == TRUE

\* tokio Mutex::lock returns when nobody holds the mutex.
LockFree(holder) == holder = NoCall

\* A guard that is never dropped.
GuardLeaked(holder, g) == holder

\* The MutexGuard of call g goes out of scope: the mutex is free again.
GuardDropped(holder, g) == IF holder = g THEN NoCall ELSE holder

ActiveGets == {g \in 1..Len(gets) : gets[g].pc # "done"}

\* get_client has returned.
GetDone(c, ret, client) == [c EXCEPT !.pc = "done", !.ret = ret, !.client = client]

\* get_client is called: resolve the server, `?` on none.
BeginGet(file) ==
    LET name == server_for_file(file, order)
        c == [file |-> file, name |-> name, pc |-> "lock", client |-> 0,
              ret |-> "none", conc |-> ActiveGets # {}]
    IN
    /\ order # <<>>
    /\ Len(gets) < MaxGets
    /\ Cardinality(ActiveGets) < MaxConcurrent
    /\ gets' = Append(gets, IF name = NoServer THEN GetDone(c, "Err(no LSP configured)", 0)
                            ELSE c)
    /\ UNCHANGED <<clients, clientsLock, spawned, newClients, order>>
    /\ UNCHANGED <<clientVars, frameVars, pipeFull, envVars, writeVars, frontVars>>

\* self.clients.lock().await
LockClients(g) ==
    /\ gets[g].pc = "lock"
    /\ LockFree(clientsLock)
    /\ clientsLock' = g
    /\ gets' = [gets EXCEPT ![g].pc = "lookup"]
    /\ UNCHANGED <<clients, spawned, newClients, order>>
    /\ UNCHANGED <<clientVars, frameVars, pipeFull, envVars, writeVars, frontVars>>

\* clients.get(&name): return the cached client, or create a new one.
Lookup(g) ==
    LET c == gets[g] IN
    /\ c.pc = "lookup"
    /\ IF c.name \in DOMAIN clients
       THEN /\ gets' = [gets EXCEPT ![g] = GetDone(c, "Ok", clients[c.name])]
            /\ clientsLock' = GuardDropped(clientsLock, g)
            /\ UNCHANGED newClients
       ELSE /\ newClients' = newClients + 1
            /\ gets' = [gets EXCEPT ![g].client = newClients + 1, ![g].pc = "start"]
            /\ UNCHANGED clientsLock
    /\ UNCHANGED <<clients, spawned, order>>
    /\ UNCHANGED <<clientVars, frameVars, pipeFull, envVars, writeVars, frontVars>>

\* client.start(&config) spawns the process.
StartSpawns(g) ==
    /\ gets[g].pc = "start"
    /\ spawned' = Append(spawned, gets[g].name)
    /\ gets' = [gets EXCEPT ![g].pc = "insert"]
    /\ UNCHANGED <<clients, clientsLock, newClients, order>>
    /\ UNCHANGED <<clientVars, frameVars, pipeFull, envVars, writeVars, frontVars>>

\* client.start(&config) fails to spawn: `?` returns, the guard is dropped.
StartFails(g) ==
    /\ gets[g].pc = "start"
    /\ gets' = [gets EXCEPT ![g] = GetDone(@, "Err(spawn)", 0)]
    /\ clientsLock' = GuardDropped(clientsLock, g)
    /\ UNCHANGED <<clients, spawned, newClients, order>>
    /\ UNCHANGED <<clientVars, frameVars, pipeFull, envVars, writeVars, frontVars>>

\* clients.insert(name, client); return it, the guard is dropped.
InsertClient(g) ==
    LET c == gets[g] IN
    /\ c.pc = "insert"
    /\ clients' = With(clients, c.name, c.client)
    /\ gets' = [gets EXCEPT ![g] = GetDone(c, "Ok", c.client)]
    /\ clientsLock' = GuardDropped(clientsLock, g)
    /\ UNCHANGED <<spawned, newClients, order>>
    /\ UNCHANGED <<clientVars, frameVars, pipeFull, envVars, writeVars, frontVars>>

PoolNext ==
    \/ \E file \in PoolFiles : BeginGet(file)
    \/ \E g \in 1..Len(gets) : LockClients(g)
    \/ \E g \in 1..Len(gets) : Lookup(g)
    \/ \E g \in 1..Len(gets) : StartSpawns(g)
    \/ \E g \in 1..Len(gets) : StartFails(g)
    \/ \E g \in 1..Len(gets) : InsertClient(g)

InitPool ==
    /\ process = FALSE
    /\ stdin = FALSE
    /\ pending = <<>>
    /\ next_id = 1
    /\ initialized = FALSE
    /\ root_uri = NoUri
    /\ reader = "unstarted"
    /\ backend = "none"
    /\ chan = <<>>
    /\ wire = <<>>
    /\ calls = <<>>
    /\ issued = <<>>
    /\ timedOut = {}
    /\ late = {}
    /\ settled = FALSE
    /\ clients = <<>>
    /\ clientsLock = NoCall
    /\ gets = <<>>
    /\ spawned = <<>>
    /\ newClients = 0
    /\ order \in Orders
    /\ input = <<>>
    /\ content_length = NoLen
    /\ offset = 0
    /\ rstate = "headers"
    /\ out = <<>>
    /\ sent = <<>>
    /\ closed = FALSE
    /\ pipeFull = FALSE
    /\ clientName = "rust"
    /\ clock = 0
    /\ fs = DefaultFs
    /\ stdinLock = NoCall
    /\ writers = <<>>
    /\ chunks = <<>>
    /\ mcpIn = <<>>
    /\ mcpPos = 0
    /\ mcpEof = FALSE
    /\ mcpSent = <<>>
    /\ mcpOut = <<>>
    /\ stdoutBroken = FALSE
    /\ mainLoop = "running"

SpecPool == InitPool /\ [][PoolNext]_vars

\* ------------------------------------------------------ a stalled backend
\* The backend stops reading its stdin and the text of the didOpen frames
\* fills the pipe.
PipeFills ==
    /\ backend = "running"
    /\ ~pipeFull
    /\ \/ \E k \in Active : calls[k].pc = "open" /\ calls[k].file \in FsEntries
       \/ \E i \in 1..Len(wire) : wire[i].method = "textDocument/didOpen"
    /\ pipeFull' = TRUE
    /\ UNCHANGED <<clientVars, poolVars, frameVars, envVars, writeVars, frontVars>>

\* The backend reads its stdin again.
PipeDrains ==
    /\ pipeFull
    /\ pipeFull' = FALSE
    /\ UNCHANGED <<clientVars, poolVars, frameVars, envVars, writeVars, frontVars>>

\* The steps of call k.
CallStep(k) ==
    \/ EnsureInitialized(k) \/ Allocate(k) \/ Insert(k) \/ WriteRequest(k)
    \/ Receive(k) \/ Timeout(k) \/ NotifyInitialized(k) \/ SetInitialized(k)
    \/ OpenFile(k) \/ NotifyExit(k) \/ Kill(k) \/ ClearInitialized(k)

StallOps == {"diagnostics"}

StallNext ==
    \/ ClientNext(StallOps, MaxConcurrent)
    \/ PipeFills
    \/ PipeDrains

\* The runtime runs every task that can run, and the 30 s timer fires: a step
\* of a call that is possible again and again is taken.
SpecStall ==
    /\ InitClient
    /\ [][StallNext]_vars
    /\ \A k \in 1..MaxCalls : SF_vars(k \in 1..Len(calls) /\ CallStep(k))

\* ---------------------------------------------------------------- framing
\* Streams are sequences of bytes, a byte written as the character it encodes;
\* InvalidByte is a byte no UTF-8 text contains.
InvalidByte == "0xFF"

DigitChars == <<"0", "1", "2", "3", "4", "5", "6", "7", "8", "9">>
IsDigit(ch) == \E i \in 1..10 : DigitChars[i] = ch
DigitValue(ch) == (CHOOSE i \in 1..10 : DigitChars[i] = ch) - 1

\* format!("{}", n) of a usize.
RECURSIVE FormatUsize(_)
FormatUsize(n) ==
    IF n < 10 THEN <<DigitChars[n + 1]>>
    ELSE Append(FormatUsize(n \div 10), DigitChars[(n % 10) + 1])

\* str::parse::<usize>: decimal digits after an optional plus sign; NoLen for
\* anything else.
RECURSIVE DecimalValue(_)
DecimalValue(ds) ==
    IF ds = <<>> THEN 0
    ELSE 10 * DecimalValue(SubSeq(ds, 1, Len(ds) - 1)) + DigitValue(ds[Len(ds)])

ParseUsize(str) ==
    LET ds == IF str # <<>> /\ str[1] = "+" THEN Tail(str) ELSE str IN
    IF ds # <<>> /\ \A i \in 1..Len(ds) : IsDigit(ds[i]) THEN DecimalValue(ds)
    ELSE NoLen

IsSpace(ch) == ch \in {" ", "\t", "\r", "\n"}

\* str::trim
RECURSIVE trim(_)
trim(str) ==
    IF str = <<>> THEN str
    ELSE IF IsSpace(str[1]) THEN trim(Tail(str))
    ELSE IF IsSpace(str[Len(str)]) THEN trim(SubSeq(str, 1, Len(str) - 1))
    ELSE str

\* str::trim_end_matches(|c| c == '\r' || c == '\n')
RECURSIVE trim_end_matches(_)
trim_end_matches(str) ==
    IF str # <<>> /\ str[Len(str)] \in {"\r", "\n"}
    THEN trim_end_matches(SubSeq(str, 1, Len(str) - 1))
    ELSE str

starts_with(str, prefix) ==
    Len(prefix) <= Len(str) /\ SubSeq(str, 1, Len(prefix)) = prefix

\* Option::None of a part of a line.
NoPart == <<"<none>">>

\* line.split(':').nth(1): what lies between the first colon and the next,
\* or NoPart when the line has no colon.
SplitNth1(line) ==
    LET colons == {i \in 1..Len(line) : line[i] = ":"} IN
    IF colons = {} THEN NoPart
    ELSE LET first == CHOOSE i \in colons : \A j \in colons : i <= j
             later == colons \ {first}
             stop == IF later = {} THEN Len(line) + 1
                     ELSE CHOOSE i \in later : \A j \in later : i <= j
         IN SubSeq(line, first + 1, stop - 1)

\* .split(':').nth(1).and_then(|s| s.trim().parse().ok())
HeaderLength(line) ==
    IF SplitNth1(line) = NoPart THEN NoLen ELSE ParseUsize(trim(SplitNth1(line)))

LengthPrefix == <<"c", "o", "n", "t", "e", "n", "t", "-", "l", "e", "n", "g", "t", "h", ":">>

\* AsyncBufReadExt::read_line at byte `pos`: the bytes up to and including the
\* next line feed, or up to the end of the stream. The bytes are consumed
\* also when they are no UTF-8 text, which is an error.
ReadLine(stream, pos) ==
    LET feeds == {i \in (pos + 1)..Len(stream) : stream[i] = "\n"}
        stop == IF feeds = {} THEN Len(stream)
                ELSE CHOOSE i \in feeds : \A j \in feeds : i <= j
        line == SubSeq(stream, pos + 1, stop)
    IN [line |-> line, next |-> stop,
        err |-> \E i \in 1..Len(line) : line[i] = InvalidByte]

\* A writer that ends every message with a line feed.
write_message_line(msg) ==
    <<"C", "o", "n", "t", "e", "n", "t", "-", "L", "e", "n", "g", "t", "h", ":", " ">>
    \o FormatUsize(Len(msg)) \o <<"\r", "\n", "\r", "\n">> \o msg \o <<"\n">>

\* write_message_async: the bytes written for msg.
write_message_async(msg) ==
    <<"C", "o", "n", "t", "e", "n", "t", "-", "L", "e", "n", "g", "t", "h", ":", " ">>
    \o FormatUsize(Len(msg)) \o <<"\r", "\n", "\r", "\n">> \o msg

\* What read_message_async returns, and the offset it has read up to.
Read(ret, body, next) == [ret |-> ret, body |-> body, next |-> next]

\* read_message_async: the body, after the header loop has ended with `len`.
ReadBody(stream, pos, len) ==
    IF len = NoLen THEN Read("Ok(None)", <<>>, pos)
    ELSE IF Len(stream) - pos < len THEN Read("Err(UnexpectedEof)", <<>>, Len(stream))
    ELSE LET body == SubSeq(stream, pos + 1, pos + len) IN
         IF \E i \in 1..len : body[i] = InvalidByte
         THEN Read("Err(InvalidData)", <<>>, pos + len)
         ELSE Read("Ok(Some)", body, pos + len)

\* read_message_async: the header loop from byte `pos` on, `len` being the
\* content length found so far.
RECURSIVE ReadHeaders(_, _, _)
ReadHeaders(stream, pos, len) ==
    LET r == ReadLine(stream, pos)
        trimmed == trim_end_matches(r.line)
    IN IF r.err THEN Read("Err(InvalidData)", <<>>, r.next)
       ELSE IF Len(r.line) = 0 THEN Read("Ok(None)", <<>>, pos)
       ELSE IF trimmed = <<>> THEN ReadBody(stream, r.next, len)
       ELSE IF starts_with(to_lowercase(trimmed), LengthPrefix)
       THEN ReadHeaders(stream, r.next, HeaderLength(trimmed))
       ELSE ReadHeaders(stream, r.next, len)

read_message_async(stream, pos) == ReadHeaders(stream, pos, NoLen)

\* The message bodies written: every text over the alphabet up to MaxBody
\* bytes, and one whose length has two digits.
BodyAlphabet == {"a", ":", "\r", "\n"}
LongBody == <<"a", ":", "\n", "a", "\r", "a", "a", "a", "a", "\r", "\n">>
Bodies ==
    UNION {[1..n -> BodyAlphabet] : n \in 0..MaxBody} \cup {LongBody}

\* write_message_async(msg) on the stream returns Ok.
WriteMessage(msg) ==
    /\ ~closed
    /\ Len(sent) < MaxFrames
    /\ input' = input \o write_message_async(msg)
    /\ sent' = Append(sent, [body |-> msg, written |-> Len(write_message_async(msg))])
    /\ UNCHANGED <<offset, content_length, rstate, out, closed>>
    /\ UNCHANGED <<clientVars, poolVars, pipeFull, envVars, writeVars, frontVars>>

\* The writer stops after n bytes of a message (it is killed, or the pipe
\* breaks), which closes the stream.
WriteTruncated(msg, n) ==
    /\ ~closed
    /\ Len(sent) < MaxFrames
    /\ n < Len(write_message_async(msg))
    /\ input' = input \o SubSeq(write_message_async(msg), 1, n)
    /\ sent' = Append(sent, [body |-> msg, written |-> n])
    /\ closed' = TRUE
    /\ UNCHANGED <<offset, content_length, rstate, out>>
    /\ UNCHANGED <<clientVars, poolVars, pipeFull, envVars, writeVars, frontVars>>

\* The writer closes the stream between two messages.
CloseStream ==
    /\ ~closed
    /\ closed' = TRUE
    /\ UNCHANGED <<input, offset, content_length, rstate, out, sent>>
    /\ UNCHANGED <<clientVars, poolVars, pipeFull, envVars, writeVars, frontVars>>

\* One call of read_message_async on the stream. A read waits for the bytes
\* it needs, so what it returns is decided by the whole stream.
ReadMessage ==
    LET r == read_message_async(input, offset) IN
    /\ closed
    /\ Len(out) < MaxReads
    /\ out' = Append(out, [ret |-> r.ret, body |-> r.body])
    /\ offset' = r.next
    /\ UNCHANGED <<input, content_length, rstate, sent, closed>>
    /\ UNCHANGED <<clientVars, poolVars, pipeFull, envVars, writeVars, frontVars>>

FramingNext ==
    \/ \E msg \in Bodies : WriteMessage(msg)
    \/ \E msg \in Bodies :
          \E n \in 0..(Len(write_message_async(msg)) - 1) : WriteTruncated(msg, n)
    \/ CloseStream
    \/ ReadMessage

SpecFraming == InitClient /\ [][FramingNext]_vars

\* ------------------------------------------ the reader task, byte by byte
\* serde_json::from_slice::<JsonRpcResponse> on the bodies used here, where
\* {n} stands for a response object whose id is n and that carries a result,
\* {n!} for one that carries an error, and {} for one without an id; any other
\* body is not a response object.
DecodeResponse(body) ==
    IF body = <<"{", "}">>
    THEN [ok |-> TRUE, resp |-> [id |-> NoId, result |-> TRUE, error |-> FALSE]]
    ELSE IF Len(body) = 4 /\ body[1] = "{" /\ IsDigit(body[2]) /\ body[3] = "!"
            /\ body[4] = "}"
    THEN [ok |-> TRUE, resp |-> [id |-> DigitValue(body[2]), result |-> FALSE,
                                 error |-> TRUE]]
    ELSE IF Len(body) = 3 /\ body[1] = "{" /\ IsDigit(body[2]) /\ body[3] = "}"
    THEN [ok |-> TRUE, resp |-> [id |-> DigitValue(body[2]), result |-> TRUE,
                                 error |-> FALSE]]
    ELSE [ok |-> FALSE, resp |-> NoResp]

\* What the backend writes to its stdout: responses to requests 1 and 2, an
\* error response to request 1, a response to a request nobody made, a response without id, a body that is
\* no response, a header block without a length, one with a header that is
\* not UTF-8.
ResponseFrame(id) == write_message_async(<<"{", DigitChars[id + 1], "}">>)
ErrorFrame(id) == write_message_async(<<"{", DigitChars[id + 1], "!", "}">>)
ReaderFrames ==
    { ResponseFrame(1), ResponseFrame(2), ErrorFrame(1), ResponseFrame(9),
      write_message_async(<<"{", "}">>),
      write_message_async(<<"x">>),
      <<"X", ":", "1", "\r", "\n", "\r", "\n">>,
      <<"X", ":", InvalidByte, "\r", "\n", "\r", "\n">> }

\* The backend writes one frame to its stdout.
BackendWrites(frame) ==
    /\ ~closed
    /\ Len(sent) < MaxFrames
    /\ input' = input \o frame
    /\ sent' = Append(sent, [body |-> frame, written |-> Len(frame)])
    /\ UNCHANGED <<offset, content_length, rstate, out, closed>>
    /\ UNCHANGED <<clientVars, poolVars, pipeFull, envVars, writeVars, frontVars>>

\* A byte sequence a blocking read of a line can return: a whole line, or
\* what is left when the stream has closed.
LineReady == closed \/ \E i \in (offset + 1)..Len(input) : input[i] = "\n"

\* The reader task reads one header line (client.rs:64-78).
ReaderReadLine ==
    LET r == ReadLine(input, offset) IN
    /\ reader = "running"
    /\ rstate = "headers"
    /\ LineReady
    /\ offset' = r.next
    /\ IF r.err \/ Len(r.line) = 0
       THEN /\ reader' = "returned"
            /\ UNCHANGED <<content_length, rstate>>
       ELSE IF r.line = <<"\r", "\n">> \/ r.line = <<"\n">>
       THEN /\ rstate' = IF content_length = NoLen THEN "headers" ELSE "body"
            /\ UNCHANGED <<content_length, reader>>
       ELSE IF starts_with(to_lowercase(r.line), LengthPrefix)
       THEN /\ content_length' = HeaderLength(r.line)
            /\ UNCHANGED <<rstate, reader>>
       ELSE UNCHANGED <<content_length, rstate, reader>>
    /\ UNCHANGED <<input, out, sent, closed>>
    /\ UNCHANGED <<process, stdin, pending, next_id, initialized, root_uri,
                   backend, chan, wire, calls, issued, timedOut, late, settled>>
    /\ UNCHANGED <<poolVars, pipeFull, envVars, writeVars, frontVars>>

\* The reader task reads the body, decodes it and completes the entry of the
\* response's id (client.rs:84-99).
ReaderReadBody ==
    LET body == SubSeq(input, offset + 1, offset + content_length)
        d == DecodeResponse(body)
        key == ReaderLookup(pending, d.resp.id)
    IN
    /\ reader = "running"
    /\ rstate = "body"
    /\ closed \/ Len(input) - offset >= content_length
    /\ IF Len(input) - offset < content_length
       THEN /\ reader' = "returned"
            /\ offset' = Len(input)
            /\ UNCHANGED <<content_length, rstate, pending, chan, late>>
       ELSE /\ offset' = offset + content_length
            /\ content_length' = NoLen
            /\ rstate' = "headers"
            /\ IF d.ok /\ d.resp.id # NoId /\ key # NoId
               THEN /\ pending' = Without(pending, key)
                    /\ chan' = [chan EXCEPT ![pending[key]] = OneshotSend(@, d.resp)]
               ELSE UNCHANGED <<pending, chan>>
            /\ late' = IF d.ok /\ d.resp.id \in timedOut
                       THEN late \cup {d.resp.id} ELSE late
            /\ UNCHANGED reader
    /\ UNCHANGED <<input, out, sent, closed>>
    /\ UNCHANGED <<process, stdin, next_id, initialized, root_uri,
                   backend, wire, calls, issued, timedOut, settled>>
    /\ UNCHANGED <<poolVars, pipeFull, envVars, writeVars, frontVars>>

ReaderNext ==
    \/ \E frame \in ReaderFrames : BackendWrites(frame)
    \/ CloseStream
    \/ ReaderReadLine
    \/ ReaderReadBody

\* A call of hover that waits for the response to its initialize request.
WaitingCall(id) ==
    [op |-> "hover", file |-> <<"proj", "src", "a.rs">>, stage |-> "init",
     pc |-> "wait", id |-> id, resp |-> NoResp, ret |-> "none", sawInit |-> "no",
     seq |-> FALSE, clean |-> TRUE]

\* A started client on which two concurrent calls of hover have each written
\* an initialize request, ids 1 and 2, and wait.
InitReader ==
    /\ fs = DefaultFs
    /\ process = TRUE
    /\ stdin = TRUE
    /\ pending = (1 :> 1) @@ (2 :> 2)
    /\ next_id = 3
    /\ initialized = FALSE
    /\ root_uri = path_to_uri(RootFor(<<"proj", "src", "a.rs">>))
    /\ reader = "running"
    /\ backend = "running"
    /\ chan = (1 :> [rx |-> TRUE, val |-> NoResp]) @@ (2 :> [rx |-> TRUE, val |-> NoResp])
    /\ wire = <<Msg(1, "initialize", 1), Msg(2, "initialize", 2)>>
    /\ calls = <<WaitingCall(1), WaitingCall(2)>>
    /\ issued = <<1, 2>>
    /\ timedOut = {}
    /\ late = {}
    /\ settled = FALSE
    /\ clients = <<>>
    /\ clientsLock = NoCall
    /\ gets = <<>>
    /\ spawned = <<>>
    /\ newClients = 0
    /\ order = <<>>
    /\ input = <<>>
    /\ offset = 0
    /\ content_length = NoLen
    /\ rstate = "headers"
    /\ out = <<>>
    /\ sent = <<>>
    /\ closed = FALSE
    /\ pipeFull = FALSE
    /\ clientName = "rust"
    /\ clock = 0
    /\ stdinLock = NoCall
    /\ writers = <<>>
    /\ chunks = <<>>
    /\ mcpIn = <<>>
    /\ mcpPos = 0
    /\ mcpEof = FALSE
    /\ mcpSent = <<>>
    /\ mcpOut = <<>>
    /\ stdoutBroken = FALSE
    /\ mainLoop = "running"

SpecReader == InitReader /\ [][ReaderNext]_vars

\* ------------------------------------------------- writes to stdin, by piece
\* send_request (client.rs:118-126) and send_notification (client.rs:139-143)
\* write one frame each under the stdin mutex. write_all may take several
\* writes to the pipe; here every frame goes out in two pieces.
WriterKinds == {"request", "notification"}
Pieces == <<"header", "body">>

Writer(kind) == [kind |-> kind, pc |-> "lock", piece |-> 1]

\* send_request or send_notification is called and has encoded its frame.
BeginWrite(kind) ==
    /\ Cardinality({w \in 1..Len(writers) : writers[w].pc # "done"}) < MaxConcurrent
    /\ Len(writers) < MaxWriters
    /\ writers' = Append(writers, Writer(kind))
    /\ UNCHANGED <<stdinLock, chunks>>
    /\ UNCHANGED <<clientVars, poolVars, frameVars, pipeFull, envVars, frontVars>>

\* self.stdin.lock().await
LockStdin(w) ==
    /\ writers[w].pc = "lock"
    /\ LockFree(stdinLock)
    /\ stdinLock' = w
    /\ writers' = [writers EXCEPT ![w].pc = "write"]
    /\ UNCHANGED chunks
    /\ UNCHANGED <<clientVars, poolVars, frameVars, pipeFull, envVars, frontVars>>

\* write_all: the next piece of the frame goes into the pipe.
WritePiece(w) ==
    LET c == writers[w] IN
    /\ c.pc = "write"
    /\ chunks' = Append(chunks, <<w, Pieces[c.piece]>>)
    /\ writers' = IF c.piece = Len(Pieces)
                  THEN [writers EXCEPT ![w].pc = "flush"]
                  ELSE [writers EXCEPT ![w].piece = c.piece + 1]
    /\ UNCHANGED stdinLock
    /\ UNCHANGED <<clientVars, poolVars, frameVars, pipeFull, envVars, frontVars>>

\* flush, then the guard goes out of scope: a request goes on to await its
\* receiver, a notification returns.
FlushStdin(w) ==
    /\ writers[w].pc = "flush"
    /\ stdinLock' = GuardDropped(stdinLock, w)
    /\ writers' = [writers EXCEPT ![w].pc =
                      IF writers[w].kind = "request" THEN "await" ELSE "done"]
    /\ UNCHANGED chunks
    /\ UNCHANGED <<clientVars, poolVars, frameVars, pipeFull, envVars, frontVars>>

\* The receiver of a request yields, or the 30 s pass.
AwaitEnds(w) ==
    /\ writers[w].pc = "await"
    /\ writers' = [writers EXCEPT ![w].pc = "done"]
    /\ UNCHANGED <<stdinLock, chunks>>
    /\ UNCHANGED <<clientVars, poolVars, frameVars, pipeFull, envVars, frontVars>>

WriteNext ==
    \/ \E kind \in WriterKinds : BeginWrite(kind)
    \/ \E w \in 1..Len(writers) : LockStdin(w)
    \/ \E w \in 1..Len(writers) : WritePiece(w)
    \/ \E w \in 1..Len(writers) : FlushStdin(w)
    \/ \E w \in 1..Len(writers) : AwaitEnds(w)

SpecWrite == InitClient /\ [][WriteNext]_vars

\* ------------------------------------------------------------ root discovery
\* ensure_initialized (client.rs:192-200) and initialize's first statement
\* (client.rs:149), over file systems with markers at several depths.
MarkerPlaces ==
    { <<".git">>, <<"proj", ".git">>, <<"proj", "src", "Cargo.toml">>,
      <<"proj", "src", "pkg", "go.mod">>, <<"tmp", "package.json">>,
      <<"proj", "src", "README">> }

RootFiles ==
    { <<"proj", "src", "pkg", "f.rs">>, <<"proj", "src", "a.rs">>,
      <<"tmp", "b.rs">>, <<"f.rs">> }

\* ensure_initialized finds the flag false: the root is discovered and
\* initialize stores its URI.
DiscoverRoot(file) ==
    /\ ~initialized
    /\ root_uri' = path_to_uri(RootFor(file))
    /\ UNCHANGED <<process, stdin, pending, next_id, initialized, reader,
                   backend, chan, wire, calls, issued, timedOut, late, settled>>
    /\ UNCHANGED <<poolVars, frameVars, pipeFull, envVars, writeVars, frontVars>>

RootNext == \E file \in RootFiles : DiscoverRoot(file)

InitRoot ==
    /\ fs \in {RootFiles \cup places : places \in SUBSET MarkerPlaces}
    /\ process = TRUE
    /\ stdin = TRUE
    /\ pending = <<>>
    /\ next_id = 1
    /\ initialized = FALSE
    /\ root_uri = NoUri
    /\ reader = "running"
    /\ backend = "running"
    /\ chan = <<>>
    /\ wire = <<>>
    /\ calls = <<>>
    /\ issued = <<>>
    /\ timedOut = {}
    /\ late = {}
    /\ settled = FALSE
    /\ clients = <<>>
    /\ clientsLock = NoCall
    /\ gets = <<>>
    /\ spawned = <<>>
    /\ newClients = 0
    /\ order = <<>>
    /\ input = <<>>
    /\ offset = 0
    /\ content_length = NoLen
    /\ rstate = "headers"
    /\ out = <<>>
    /\ sent = <<>>
    /\ closed = FALSE
    /\ pipeFull = FALSE
    /\ clientName = "rust"
    /\ clock = 0
    /\ stdinLock = NoCall
    /\ writers = <<>>
    /\ chunks = <<>>
    /\ mcpIn = <<>>
    /\ mcpPos = 0
    /\ mcpEof = FALSE
    /\ mcpSent = <<>>
    /\ mcpOut = <<>>
    /\ stdoutBroken = FALSE
    /\ mainLoop = "running"

SpecRoot == InitRoot /\ [][RootNext]_vars

\* ---------------------------------------------------------------- front end
\* What call_tool makes of an operation's return value (main.rs:245-331) and
\* how handle_request flags it (main.rs:222-228). A text is a sequence of
\* words.
EmptyText(op) ==
    CASE op = "hover" -> "No hover information"
      [] op = "definition" -> "No definition found"
      [] op = "references" -> "No references found"
      [] op = "document_symbols" -> "No symbols found"
      [] OTHER -> "No diagnostics"

\* tool_hover, tool_definition, tool_references, tool_symbols,
\* tool_diagnostics: the text for what get_client and the client returned.
tool_text(op, ret) ==
    CASE ret = "Ok(Some)" -> <<"formatted", op>>
      [] ret \in {"Ok(None)", "Ok([])"} -> <<EmptyText(op)>>
      [] OTHER -> <<"Error:", ret>>

\* "isError": result.starts_with("Error:")
isError(text) == starts_with(text, <<"Error:">>)

\* ---------------------------------------------------------- request timeout
\* The wait of send_request (client.rs:128-131) against the clock, for a
\* client of either backend. The configuration gives the backends different
\* time-outs: rust 5000 ms, lua none, so the default.
default_timeout == 30000

ConfigTimeoutMs(server) == IF server = "rust" THEN 5000 ELSE default_timeout

\* Duration::from_secs(30)
RequestTimeoutMs == 30000

\* Time passes while a request waits and its timer has not expired.
Tick ==
    /\ \E k \in Active : calls[k].pc = "wait"
    /\ clock < RequestTimeoutMs
    /\ clock' = clock + TickMs
    /\ UNCHANGED <<clientName, fs>>
    /\ UNCHANGED <<clientVars, poolVars, frameVars, pipeFull, writeVars, frontVars>>

\* The timer of tokio::time::timeout expires before the receiver yields.
TimerFires(k) ==
    /\ clock >= RequestTimeoutMs
    /\ Timeout(k)

TimeoutNext ==
    \/ \E k \in 1..Len(calls) : WriteRequest(k)
    \/ Tick
    \/ \E k \in 1..Len(calls) : TimerFires(k)

\* A started client of either backend; a call of hover is about to write its
\* initialize request, which the backend never answers.
InitTimeout ==
    /\ clientName \in ServerNames
    /\ fs = DefaultFs
    /\ process = TRUE
    /\ stdin = TRUE
    /\ pending = (1 :> 1)
    /\ next_id = 2
    /\ initialized = FALSE
    /\ root_uri = path_to_uri(RootFor(<<"proj", "src", "a.rs">>))
    /\ reader = "running"
    /\ backend = "running"
    /\ chan = (1 :> [rx |-> TRUE, val |-> NoResp])
    /\ wire = <<>>
    /\ calls = <<[WaitingCall(1) EXCEPT !.pc = "write"]>>
    /\ issued = <<1>>
    /\ timedOut = {}
    /\ late = {}
    /\ settled = FALSE
    /\ clients = <<>>
    /\ clientsLock = NoCall
    /\ gets = <<>>
    /\ spawned = <<>>
    /\ newClients = 0
    /\ order = <<>>
    /\ input = <<>>
    /\ offset = 0
    /\ content_length = NoLen
    /\ rstate = "headers"
    /\ out = <<>>
    /\ sent = <<>>
    /\ closed = FALSE
    /\ pipeFull = FALSE
    /\ clock = 0
    /\ stdinLock = NoCall
    /\ writers = <<>>
    /\ chunks = <<>>
    /\ mcpIn = <<>>
    /\ mcpPos = 0
    /\ mcpEof = FALSE
    /\ mcpSent = <<>>
    /\ mcpOut = <<>>
    /\ stdoutBroken = FALSE
    /\ mainLoop = "running"

SpecTimeout == InitTimeout /\ [][TimeoutNext]_vars

\* ------------------------------------------------------ the front end's loop
\* main's loop over newline-delimited requests (main.rs:483-505) with main.rs's
\* own read_message_async (422-452) and write_message_async (455-466).
NoLine == <<"<no line>">>

\* read_message_async of main.rs at byte `pos`: Some(trimmed line), or None
\* (here NoLine) on end of input, on a read error and on a line that is empty
\* once trimmed.
main_read_message_async(stream, pos) ==
    LET r == ReadLine(stream, pos) IN
    IF r.err THEN [msg |-> NoLine, next |-> r.next]
    ELSE IF Len(r.line) = 0 THEN [msg |-> NoLine, next |-> r.next]
    ELSE IF trim(r.line) = <<>> THEN [msg |-> NoLine, next |-> r.next]
    ELSE [msg |-> trim(r.line), next |-> r.next]

\* serde_json::from_str::<McpRequest> on the lines used here, where {n} stands
\* for a request object whose id is n; any other text is no request.
ParseRequest(text) ==
    IF Len(text) = 3 /\ text[1] = "{" /\ IsDigit(text[2]) /\ text[3] = "}"
    THEN [ok |-> TRUE, id |-> DigitValue(text[2])]
    ELSE [ok |-> FALSE, id |-> NoId]

\* handle_request and serde_json::to_string: the response to request id.
McpResponseLine(id) == <<"response", id>>

\* The lines a caller writes: blank, blank but for a space, two requests, a
\* text that is no request.
FrontLines ==
    { <<"\n">>, <<" ", "\n">>, <<"{", "1", "}", "\n">>, <<"{", "2", "}", "\n">>,
      <<"x", "\n">> }

\* The caller writes a line to the front end's stdin.
CallerWrites(line) ==
    /\ ~mcpEof
    /\ Len(mcpSent) < MaxLines
    /\ mcpIn' = mcpIn \o line
    /\ mcpSent' = Append(mcpSent, line)
    /\ UNCHANGED <<mcpPos, mcpEof, mcpOut, stdoutBroken, mainLoop>>
    /\ UNCHANGED <<clientVars, poolVars, frameVars, pipeFull, envVars, writeVars>>

\* The caller closes the front end's stdin.
CallerCloses ==
    /\ ~mcpEof
    /\ mcpEof' = TRUE
    /\ UNCHANGED <<mcpIn, mcpPos, mcpSent, mcpOut, stdoutBroken, mainLoop>>
    /\ UNCHANGED <<clientVars, poolVars, frameVars, pipeFull, envVars, writeVars>>

\* The caller closes the front end's stdout: writes to it fail from now on.
StdoutBreaks ==
    /\ ~stdoutBroken
    /\ stdoutBroken' = TRUE
    /\ UNCHANGED <<mcpIn, mcpPos, mcpEof, mcpSent, mcpOut, mainLoop>>
    /\ UNCHANGED <<clientVars, poolVars, frameVars, pipeFull, envVars, writeVars>>

\* One iteration of main's loop: read a message, parse it, handle it, write
\* the response.
MainIteration ==
    LET r == main_read_message_async(mcpIn, mcpPos)
        req == ParseRequest(r.msg)
    IN
    /\ mainLoop = "running"
    /\ mcpEof \/ \E i \in (mcpPos + 1)..Len(mcpIn) : mcpIn[i] = "\n"
    /\ mcpPos' = r.next
    /\ IF r.msg = NoLine
       THEN /\ mainLoop' = "exited"
            /\ UNCHANGED mcpOut
       ELSE IF r.msg = <<>> \/ ~req.ok
       THEN UNCHANGED <<mainLoop, mcpOut>>
       ELSE IF stdoutBroken
       THEN /\ mainLoop' = "exited"
            /\ UNCHANGED mcpOut
       ELSE /\ mcpOut' = Append(mcpOut, McpResponseLine(req.id))
            /\ UNCHANGED mainLoop
    /\ UNCHANGED <<mcpIn, mcpEof, mcpSent, stdoutBroken>>
    /\ UNCHANGED <<clientVars, poolVars, frameVars, pipeFull, envVars, writeVars>>

FrontNext ==
    \/ \E line \in FrontLines : CallerWrites(line)
    \/ CallerCloses
    \/ StdoutBreaks
    \/ MainIteration

SpecFront == InitClient /\ [][FrontNext]_vars

\* ----------------------------------------------------------------- claims
IsPrefix(a, b) == Len(a) <= Len(b) /\ \A i \in 1..Len(a) : a[i] = b[i]

\* The methods of the frames call k wrote, in the order of the wire.
MsgsOf(k) ==
    LET sel == SelectSeq(wire, LAMBDA m : m.call = k)
    IN [i \in 1..Len(sel) |-> sel[i].method]

OpRequest(op) == IF op \in TypedOps THEN <<MethodOf(op)>> ELSE <<>>

Count(seq, x) == Cardinality({i \in 1..Len(seq) : seq[i] = x})

DoneOk(g) == gets[g].pc = "done" /\ gets[g].ret = "Ok"

\* C1: concurrent get_client calls for one backend name spawn exactly one
\* process and all return the same client instance, the one the pool holds.
C1_OneSpawnPerName ==
    /\ \A name \in ServerNames : Count(spawned, name) <= 1
    /\ \A g \in 1..Len(gets) :
          DoneOk(g) =>
             /\ Count(spawned, gets[g].name) = 1
             /\ gets[g].name \in DOMAIN clients
             /\ clients[gets[g].name] = gets[g].client
    /\ \A g, h \in 1..Len(gets) :
          DoneOk(g) /\ DoneOk(h) /\ gets[g].name = gets[h].name
             => gets[g].client = gets[h].client

\* Two calls for one name that ran at the same time have both returned.
C1_Witness ==
    \E g, h \in 1..Len(gets) :
       /\ g # h /\ DoneOk(g) /\ DoneOk(h)
       /\ gets[g].name = gets[h].name
       /\ gets[h].conc

\* C2: a response completes the call whose request has its id and no other:
\* a call holds only a response with its own id, and a call that still waits
\* keeps its entry whatever other responses arrive.
C2_MatchedById ==
    \A k \in Active :
       LET c == calls[k] IN
       /\ c.resp # NoResp => c.resp.id = c.id
       /\ c.pc = "wait" =>
             IF chan[c.id].val = NoResp
             THEN c.id \in DOMAIN pending /\ pending[c.id] = c.id
             ELSE chan[c.id].val.id = c.id

\* Two requests in flight, the later one answered first.
C2_Witness ==
    \E k, j \in Active :
       /\ calls[k].pc = "wait" /\ calls[j].pc = "wait"
       /\ calls[k].id < calls[j].id
       /\ chan[calls[k].id].val = NoResp
       /\ chan[calls[j].id].val # NoResp

\* C3: the ids send_request allocates strictly increase in allocation order
\* (so they are distinct and never reused), and an insert finds no entry
\* and no channel for its id.
C3_FreshIds ==
    /\ \A i, j \in 1..Len(issued) : i < j => issued[i] < issued[j]
    /\ \A k, j \in Active :
          k # j /\ calls[k].id # NoId => calls[k].id # calls[j].id
    /\ \A k \in Active :
          calls[k].pc = "insert" =>
             calls[k].id \notin DOMAIN pending /\ calls[k].id \notin DOMAIN chan
    /\ \A id \in DOMAIN pending : pending[id] = id

\* Two callers have each allocated an id and neither has inserted yet.
C3_Witness ==
    \E k, j \in Active :
       k # j /\ calls[k].pc = "insert" /\ calls[j].pc = "insert"

\* C4: once send_request has returned the timed-out error, the table holds
\* no entry for that request's id.
C4_TimedOutEntryRemoved == \A id \in timedOut : id \notin DOMAIN pending

\* C5: the reader handling the response of a timed-out request delivers it to
\* no channel, changes no call and keeps running.
C5_LateResponseDropped ==
    [][late' # late =>
          /\ reader' = "running"
          /\ calls' = calls
          /\ \A id \in DOMAIN chan : chan'[id] = chan[id]]_vars

\* A late response has been handled while another call is in progress.
C5_Witness == late # {} /\ reader = "running" /\ Active # {}

\* C6: a typed operation that returned on a response carrying an error
\* returned an error, and it returned no-result only on a response with
\* neither an error nor a result.
C6_BackendErrorSurfaces ==
    \A k \in 1..Len(calls) :
       LET c == calls[k] IN
       c.pc = "done" /\ c.op \in TypedOps /\ c.ret \in {"Ok(Some)", "Ok(None)"} =>
          /\ ~c.resp.error
          /\ c.ret = "Ok(None)" => ~c.resp.result

\* C7: a request written while the initialized flag is false is the
\* initialize request.
C7_OnlyInitializeBeforeInitialized ==
    [][Len(wire') > Len(wire) /\ ~initialized /\ wire'[Len(wire')].id # NoId
          => wire'[Len(wire')].method = "initialize"]_vars

\* The frames of a call that found the flag false are, in order: initialize,
\* initialized, didOpen, the operation's request.
C8Order ==
    \A k \in Active :
       calls[k].op \in ReadOps /\ calls[k].sawInit = "no" =>
          IsPrefix(MsgsOf(k), <<"initialize", "initialized", "textDocument/didOpen">>
                              \o OpRequest(calls[k].op))

\* The call that writes the initialized notification holds the non-error
\* response to its own initialize request.
C8Ack ==
    \A k \in 1..Len(calls) :
       Len(wire') > Len(wire) /\ wire'[Len(wire')] = Msg(k, "initialized", NoId) =>
          /\ calls[k].resp # NoResp
          /\ calls[k].resp.id = calls[k].id
          /\ ~calls[k].resp.error
          /\ \E i \in 1..Len(wire) : wire[i] = Msg(k, "initialize", calls[k].id)

\* C8: the first read operation on a client writes initialize, then, holding
\* its non-error response, initialized, then didOpen, then its own request.
C8_FirstReadOrder == [][C8Order' /\ C8Ack]_vars

\* A call that found the flag false has written all four frames.
C8_Witness ==
    \E k \in Active :
       /\ calls[k].sawInit = "no"
       /\ MsgsOf(k) = <<"initialize", "initialized", "textDocument/didOpen",
                        "textDocument/hover">>

\* C9: a read operation begun after a read operation returned Ok, with no
\* shutdown since, writes didOpen and then its request, and nothing else.
C9_NoSecondInitialize ==
    \A k \in Active :
       calls[k].seq =>
          IsPrefix(MsgsOf(k), <<"textDocument/didOpen">> \o OpRequest(calls[k].op))

\* Such a later operation has written didOpen and its request.
C9_Witness ==
    \E k \in Active :
       /\ calls[k].seq
       /\ MsgsOf(k) = <<"textDocument/didOpen", "textDocument/hover">>

\* The file names no configured backend claims: an unclaimed extension, no
\* extension, a hidden file.
Unrouted == { <<"n", ".", "x">>, <<"m">>, <<".", "r", "s">> }

\* C10: get_client for a file no backend claims returns the no-backend error
\* at once: it spawns nothing, creates no client, leaves the map and the
\* lock as they were.
C10_NoBackendNoSpawn ==
    [][\A g \in 1..Len(gets') :
          gets'[g].file \in Unrouted =>
             /\ gets'[g].pc = "done"
             /\ gets'[g].ret = "Err(no LSP configured)"
             /\ gets'[g].client = 0
             /\ g > Len(gets) =>
                   /\ spawned' = spawned
                   /\ newClients' = newClients
                   /\ clients' = clients
                   /\ clientsLock' = clientsLock]_vars

\* Such a call has returned while the pool holds a client.
C10_Witness ==
    \E g \in 1..Len(gets) :
       /\ gets[g].file \in Unrouted
       /\ gets[g].ret = "Err(no LSP configured)"
       /\ clients # <<>>

\* C11: once the reader task has returned, no call waits for a response that
\* has not been delivered: a request pending at that moment has failed, and
\* so has every later one, before its time-out.
C11_FailFastAfterEof ==
    reader = "returned" =>
       \A k \in Active :
          calls[k].pc = "wait" => chan[calls[k].id].val # NoResp

Complete(i) == sent[i].written = Len(write_message_async(sent[i].body))

\* C13: reading the frames written for b1 and then b2 returns exactly b1,
\* then exactly b2, empty bodies and bodies with line feeds, carriage returns
\* and colons included; each read stops at the end of its frame and the read
\* after the last frame returns end of stream.
C13_FramingRoundTrip ==
    (\A i \in 1..Len(sent) : Complete(i)) =>
       /\ \A i \in 1..Len(out) :
             IF i <= Len(sent)
             THEN out[i] = [ret |-> "Ok(Some)", body |-> sent[i].body]
             ELSE out[i] = [ret |-> "Ok(None)", body |-> <<>>]
       /\ Len(out) >= Len(sent) => offset = Len(input)

\* Two frames have been read back, the first with a body of line ends only
\* and the second with a two-digit length.
C13_Witness ==
    /\ Len(sent) = 2 /\ Complete(1) /\ Complete(2) /\ Len(out) = 3
    /\ sent[1].body = <<"\r", "\n">>
    /\ sent[2].body = LongBody
    /\ out[2].body = LongBody

\* The bytes of the frame of msg up to the end of its length line.
DeclaredAt(msg) == Len(write_message_async(msg)) - Len(msg) - 2

\* The last message was cut after its length line and before its last body
\* byte; the ones before it are complete.
Truncated ==
    /\ sent # <<>>
    /\ \A i \in 1..(Len(sent) - 1) : Complete(i)
    /\ sent[Len(sent)].body # <<>>
    /\ sent[Len(sent)].written >= DeclaredAt(sent[Len(sent)].body)
    /\ ~Complete(Len(sent))

\* C14: a read on a stream that closed before any byte of a header returns
\* end of stream (Ok(None)); a read of a frame whose stream closed after the
\* length was declared and before that many body bytes returns an error.
C14_EofOrTruncation ==
    /\ (\A i \in 1..Len(sent) : Complete(i)) /\ Len(out) > Len(sent)
          => out[Len(sent) + 1].ret = "Ok(None)"
    /\ Truncated /\ Len(out) >= Len(sent)
          => out[Len(sent)].ret \in {"Err(UnexpectedEof)", "Err(InvalidData)"}

\* The state SpecReader starts in, as the calls of SpecClient reach it.
ReaderStartReached ==
    /\ pending = (1 :> 1) @@ (2 :> 2)
    /\ calls = <<WaitingCall(1), WaitingCall(2)>>
    /\ wire = <<Msg(1, "initialize", 1), Msg(2, "initialize", 2)>>
    /\ chan = (1 :> [rx |-> TRUE, val |-> NoResp]) @@ (2 :> [rx |-> TRUE, val |-> NoResp])
    /\ root_uri = path_to_uri(RootFor(<<"proj", "src", "a.rs">>))
    /\ next_id = 3 /\ issued = <<1, 2>> /\ process /\ stdin /\ ~initialized
    /\ reader = "running" /\ backend = "running" /\ timedOut = {} /\ late = {}
    /\ ~settled

\* What a frame the backend wrote decodes to, and whether that is a response
\* to request id.
Decoded(frame) == DecodeResponse(read_message_async(frame, 0).body)
IsResponseTo(frame, id) == Decoded(frame).ok /\ Decoded(frame).resp.id = id

\* C12: the reader task returns only at the end of its stream; it changes the
\* table only to take out the entry of a decoded response's id; and when it
\* has returned, every well-formed response the backend wrote for a pending
\* request has been delivered to that request's channel.
C12_ReaderSurvivesBadFrames ==
    [][/\ reader' = "returned" => closed' /\ offset' = Len(input')
       /\ pending' # pending =>
             LET d == DecodeResponse(SubSeq(input, offset + 1, offset + content_length))
             IN /\ rstate = "body" /\ d.ok /\ d.resp.id \in DOMAIN pending
                /\ pending' = Without(pending, d.resp.id)
       /\ reader' = "returned" =>
             \A id \in {1, 2} : \A i \in 1..Len(sent') :
                /\ IsResponseTo(sent'[i].body, id)
                /\ \A j \in 1..(i - 1) : ~IsResponseTo(sent'[j].body, id)
                => chan'[id].val = Decoded(sent'[i].body).resp]_vars

InitErrors == {"Err(initialize failed)", "Err(timeout)", "Err(io)", "Err(not running)"}

\* Call j has returned from a failed initialization: all it wrote is its
\* initialize request.
InitFailed(j) ==
    /\ calls[j].pc = "done" /\ calls[j].op \in ReadOps
    /\ calls[j].ret \in InitErrors
    /\ MsgsOf(j) = <<"initialize">>

\* C15: with one caller at a time, an initialization goes on to its
\* notification only on a non-error response; when it fails the call returns
\* the error, the flag is false and the call has written nothing but its
\* initialize request; the first frame the next read operation writes is a
\* new initialize request.
C15_InitFailureLeavesUninitialized ==
    [][\A k \in 1..Len(calls) :
          LET c == calls[k]
              d == calls'[k]
          IN /\ c.stage = "init" /\ c.pc # "notify" /\ d.pc = "notify" =>
                   /\ c.pc = "wait"
                   /\ chan[c.id].val # NoResp
                   /\ ~chan[c.id].val.error
             /\ c.stage = "init" /\ d.pc = "done" =>
                   /\ d.ret \in InitErrors
                   /\ ~initialized'
                   /\ IsPrefix(MsgsOf(k)', <<"initialize">>)
             /\ k > 1 /\ InitFailed(k - 1) /\ c.op \in ReadOps /\ MsgsOf(k) = <<>>
                /\ Len(wire') > Len(wire) =>
                   wire'[Len(wire')].method = "initialize"]_vars

\* An initialize request got an error response, the call returned the error,
\* and the next call has written a new initialize request.
C15_Witness ==
    /\ Len(calls) = 2
    /\ calls[1].ret = "Err(initialize failed)" /\ InitFailed(1)
    /\ ~initialized
    /\ MsgsOf(2) = <<"initialize">>

\* C19: the pool map only grows: a step never removes an entry nor changes
\* its client, and a name is in the map only if a get_client call for a file
\* of that backend has spawned it and returned that client or is about to.
C19_PoolOnlyGrows ==
    [][/\ \A name \in DOMAIN clients :
             name \in DOMAIN clients' /\ clients'[name] = clients[name]
       /\ \A name \in DOMAIN clients' :
             /\ Count(spawned', name) = 1
             /\ \E g \in 1..Len(gets') :
                   /\ server_for_file(gets'[g].file, order) = name
                   /\ DoneOk(g)'
                   /\ gets'[g].client = clients'[name]]_vars

\* The map holds both backends, each spawned by its own call.
C19_Witness ==
    /\ DOMAIN clients = ServerNames
    /\ \E g, h \in 1..Len(gets) :
          DoneOk(g) /\ DoneOk(h) /\ gets[g].name # gets[h].name

\* C20: when spawning fails, get_client returns the spawn error, the map and
\* the spawned processes are as before and the lock is free; no call that
\* has returned holds the lock, so calls for other backends go on.
C20_SpawnFailureIsLocal ==
    [][/\ \A g \in 1..Len(gets) :
             gets[g].pc = "start" /\ gets'[g].pc = "done" =>
                /\ gets'[g].ret = "Err(spawn)"
                /\ gets'[g].client = 0
                /\ clients' = clients
                /\ spawned' = spawned
                /\ clientsLock' = NoCall
       /\ \A g \in 1..Len(gets') :
             gets'[g].pc = "done" => clientsLock' # g]_vars

\* A call for one backend returned its client, then a spawn failed for the
\* other backend, then a call for the first backend returned its client.
C20_Witness ==
    /\ Len(gets) = 3
    /\ DoneOk(1) /\ DoneOk(3) /\ ~gets[3].conc
    /\ gets[2].pc = "done" /\ gets[2].ret = "Err(spawn)"
    /\ gets[2].name # gets[1].name /\ gets[2].name # gets[3].name
    /\ gets[2].name \notin DOMAIN clients

IsShutdown(k) == k \in 1..Len(calls) /\ calls[k].op = "shutdown"

\* C16: every call of shutdown returns, whatever the backend does, and it
\* returns Ok with the process handle absent and the flag false.
C16_ShutdownTerminates ==
    /\ \A k \in 1..MaxCalls : IsShutdown(k) ~> (IsShutdown(k) /\ calls[k].pc = "done")
    /\ [][\A k \in 1..Len(calls) :
             calls[k].op = "shutdown" /\ calls[k].pc # "done" /\ calls'[k].pc = "done"
                => calls'[k].ret = "Ok(())" /\ ~process' /\ ~initialized']_vars

\* Call k is inside send_request.
InSend(k) ==
    k \in 1..Len(calls) /\ calls[k].pc \in {"alloc", "insert", "write", "wait"}

\* C18: every call of send_request returns, whatever the backend does.
C18_SendRequestReturns ==
    \A k \in 1..MaxCalls : InSend(k) ~> ~InSend(k)

\* C17: when a second call of shutdown has returned after a first one, it
\* returned Ok and the client is as the first call left it: no process
\* handle, the flag false, and no entry in the table for the request the
\* second call made.
C17_ShutdownIdempotent ==
    /\ Active = {} /\ Len(calls) >= 2
    /\ calls[Len(calls) - 1].op = "shutdown" /\ calls[Len(calls)].op = "shutdown"
    => /\ calls[Len(calls)].ret = "Ok(())"
       /\ ~process
       /\ ~initialized
       /\ issued[Len(issued)] \notin DOMAIN pending

\* The dotted extension of each file name used, written out.
DottedExt(file) ==
    CASE file = <<"a", ".", "r", "s">> -> <<".", "r", "s">>
      [] file = <<"a", ".", "R", "S">> -> <<".", "R", "S">>
      [] file = <<"b", ".", "l", "u", "a">> -> <<".", "l", "u", "a">>
      [] file = <<"b", ".", "L", "U", "A">> -> <<".", "L", "U", "A">>
      [] file = <<"c", ".", "h">> -> <<".", "h">>
      [] file = <<"n", ".", "x">> -> <<".", "x">>
      [] OTHER -> NoExt

\* Backend `name` lists the file's dotted extension, letter case aside.
Lists(name, file) ==
    /\ DottedExt(file) # NoExt
    /\ \E i \in 1..Len(Extensions(name)) :
          to_lowercase(Extensions(name)[i]) = to_lowercase(DottedExt(file))

\* C21: the backend get_client resolves for a file lists the file's dotted
\* extension, letter case aside; none is resolved exactly when no backend
\* lists it; when one backend alone lists it, that backend is resolved.
C21_ExtensionRouting ==
    \A g \in 1..Len(gets) :
       LET file == gets[g].file
           name == gets[g].name
           listing == {n \in ServerNames : Lists(n, file)}
       IN /\ name # NoServer => name \in listing
          /\ name = NoServer <=> listing = {}
          /\ Cardinality(listing) = 1 => listing = {name}

\* Both letter cases of an extension one backend lists in mixed case have
\* been resolved, and a file both backends list has been resolved.
C21_Witness ==
    /\ \E g, h \in 1..Len(gets) :
          /\ gets[g].file = <<"b", ".", "l", "u", "a">> /\ gets[g].name = "lua"
          /\ gets[h].file = <<"b", ".", "L", "U", "A">> /\ gets[h].name = "lua"
    /\ \E g \in 1..Len(gets) : gets[g].file = <<"c", ".", "h">>

\* C22: the pieces of two frames never interleave in the backend's stdin, and
\* a caller awaiting its response does not hold the stdin lock, so another
\* caller can take it and write.
C22_SingleWriter ==
    /\ \A i \in 1..Len(chunks) :
          /\ chunks[i][2] = "body" =>
                i > 1 /\ chunks[i - 1] = <<chunks[i][1], "header">>
          /\ chunks[i][2] = "header" /\ i < Len(chunks) =>
                chunks[i + 1] = <<chunks[i][1], "body">>
    /\ \A w \in 1..Len(writers) :
          /\ writers[w].pc \in {"await", "done", "lock"} => stdinLock # w
          /\ writers[w].pc = "lock" /\ stdinLock = NoCall => ENABLED LockStdin(w)

\* Two requests have been written whole, one after the other, and both are
\* still awaiting their responses.
C22_Witness ==
    \E v, w \in 1..Len(writers) :
       /\ v # w
       /\ writers[v].kind = "request" /\ writers[w].kind = "request"
       /\ writers[v].pc = "await" /\ writers[w].pc = "await"
       /\ chunks = <<<<v, "header">>, <<v, "body">>, <<w, "header">>, <<w, "body">>>>

MarkerNames == {".git", "Cargo.toml", "package.json", "pyproject.toml", "go.mod",
                ".luarc.json", "compile_commands.json"}

\* The directories above a file, its parent first among them.
Ancestors(file) == {SubSeq(file, 1, n) : n \in 0..(Len(file) - 1)}

Marked(file) == {d \in Ancestors(file) : \E m \in MarkerNames : Append(d, m) \in fs}

\* uri names the deepest marked directory above file, or file's parent when
\* none is marked.
NearestRoot(file, uri) ==
    IF Marked(file) = {}
    THEN uri = <<"file://">> \o SubSeq(file, 1, Len(file) - 1)
    ELSE \E d \in Marked(file) :
            /\ uri = <<"file://">> \o d
            /\ \A e \in Marked(file) : Len(e) <= Len(d)

\* C23: the root announced for a file is its nearest ancestor directory,
\* from its parent upwards, that holds a marker, and its parent when no
\* ancestor holds one.
C23_NearestMarkerRoot ==
    [][\A file \in RootFiles : DiscoverRoot(file) => NearestRoot(file, root_uri')]_vars

\* Markers at /, /proj and /proj/src but not in /proj/src/pkg: the root is
\* /proj/src.
C23_Witness ==
    /\ {<<".git">>, <<"proj", ".git">>, <<"proj", "src", "Cargo.toml">>} \subseteq fs
    /\ <<"proj", "src", "pkg", "go.mod">> \notin fs
    /\ root_uri = <<"file://", "proj", "src">>

EmptyTexts == {"No hover information", "No definition found", "No references found",
               "No symbols found"}

\* The call failed: it returned an error, or the response it returned on
\* carried one.
ToolFailed(c) == c.ret \notin {"Ok(Some)", "Ok(None)", "Ok([])"} \/ c.resp.error

\* C24: the text the front end returns for a failed tool call starts with
\* "Error:", is flagged isError, and is none of the empty-success texts.
C24_FailuresRenderedAsErrors ==
    \A k \in 1..Len(calls) :
       LET c == calls[k]
           text == tool_text(c.op, c.ret)
       IN c.pc = "done" /\ c.op \in ReadOps /\ ToolFailed(c) =>
             /\ text[1] = "Error:"
             /\ isError(text)
             /\ text[1] \notin EmptyTexts

\* C25: a request that is never answered times out when the time-out of its
\* own backend's configuration has passed, whatever the other backends'
\* time-outs are.
C25_TimeoutPerBackend ==
    [][timedOut' # timedOut =>
          /\ clock >= ConfigTimeoutMs(clientName)
          /\ clock < ConfigTimeoutMs(clientName) + TickMs]_vars

\* C26: once the client's root has been given a value it keeps that value.
C26_RootSetOnce == [][root_uri # NoUri => root_uri' = root_uri]_vars

\* The wire holds an initialize request and, after it, the initialized
\* notification of the same call.
HandshakeWritten ==
    \E i, j \in 1..Len(wire) :
       /\ i < j
       /\ wire[i].method = "initialize" /\ wire[i].id # NoId
       /\ wire[j] = Msg(wire[i].call, "initialized", NoId)

\* The step writes an initialized notification: its call has received, from
\* the receiver of the initialize request it wrote, a response without error.
AckFollowsResponse ==
    Len(wire') > Len(wire) /\ wire'[Len(wire')].method = "initialized" =>
       LET k == wire'[Len(wire')].call IN
       /\ calls[k].stage = "init"
       /\ calls[k].resp.id = calls[k].id /\ calls[k].resp.id # NoId
       /\ ~calls[k].resp.error
       /\ \E i \in 1..Len(wire) : wire[i] = Msg(k, "initialize", calls[k].resp.id)

\* The step sets the flag: it is taken by a call whose last frame on the wire
\* is its initialized notification.
FlagFollowsAck ==
    ~initialized /\ initialized' =>
       \E k \in 1..Len(calls) :
          /\ calls[k].pc = "set_flag" /\ calls'[k].pc # "set_flag"
          /\ MsgsOf(k) # <<>> /\ MsgsOf(k)[Len(MsgsOf(k))] = "initialized"

\* C27: whenever the initialized flag is true, an initialize request was
\* answered without error and the initialized notification was written after
\* that; the flag is not set before the notification is on the wire.
C27_FlagImpliesHandshake ==
    [][/\ initialized' => HandshakeWritten'
       /\ AckFollowsResponse
       /\ FlagFollowsAck]_vars

\* The flag is true and the call that set it has written nothing but its
\* initialize request and its notification.
C27_Witness ==
    /\ initialized
    /\ \E k \in Active : calls[k].pc = "open" /\ MsgsOf(k) = <<"initialize", "initialized">>

\* The step is the reader consuming the body of a decoded response whose id
\* has no entry in the table.
DropsUnmatched ==
    LET d == DecodeResponse(SubSeq(input, offset + 1, offset + content_length))
    IN rstate = "body" /\ rstate' = "headers" /\ d.ok /\ d.resp.id \notin DOMAIN pending

\* C28: a channel is given a response at most once: only while it is empty,
\* only through the table entry of the response's id, which the same step
\* removes; a response whose id has no entry, such as a second response to a
\* request already completed, changes no channel and no entry.
C28_FulfilledAtMostOnce ==
    [][/\ \A id \in DOMAIN chan :
             chan'[id] # chan[id] =>
                /\ chan[id].val = NoResp
                /\ chan'[id].val.id = id
                /\ id \in DOMAIN pending /\ id \notin DOMAIN pending'
       /\ DropsUnmatched => chan' = chan /\ pending' = pending]_vars

\* The backend answered request 1 twice, with a result and then with an
\* error; the reader has consumed both frames and goes on: the caller's
\* channel holds the first response, the other caller's channel is empty.
C28_Witness ==
    /\ Len(sent) = 2
    /\ sent[1].body = ResponseFrame(1) /\ sent[2].body = ErrorFrame(1)
    /\ offset = Len(input) /\ rstate = "headers" /\ reader = "running"
    /\ chan[1].val = [id |-> 1, result |-> TRUE, error |-> FALSE]
    /\ chan[2].val = NoResp
    /\ pending = (2 :> 2)

WireMethods == [i \in 1..Len(wire) |-> wire[i].method]

\* The only calls made on the client so far are two read operations, both
\* still in progress.
TwoFirstReads ==
    /\ Len(calls) = 2
    /\ \A k \in 1..2 : calls[k].op \in ReadOps /\ calls[k].pc # "done"

\* C29: while the first read operations on a started client run concurrently,
\* the backend has been sent at most one initialize request and at most one
\* initialized notification.
C29_OneHandshake ==
    TwoFirstReads =>
       /\ Count(WireMethods, "initialize") <= 1
       /\ Count(WireMethods, "initialized") <= 1

\* Call k is inside send_request and past its insert: it is writing or waiting.
HoldsEntry(k) == calls[k].pc \in {"write", "wait"}

\* Call k leaves send_request on a failure before the wait: the client has no
\* stdin, or the write failed.
FailsBeforeWait(k) ==
    /\ k \in 1..Len(calls)
    /\ calls[k].pc = "write" /\ calls'[k].pc # "write"
    /\ calls'[k].pc # "wait"

\* C30: a send_request that fails before its wait leaves no entry for its id,
\* and every entry of the table belongs to a call that is writing its request
\* or waiting for the response.
C30_NoEntryAfterEarlyFailure ==
    [][/\ \A k \in 1..Len(calls) : FailsBeforeWait(k) => calls[k].id \notin DOMAIN pending'
       /\ \A id \in DOMAIN pending' :
             \E k \in 1..Len(calls') : HoldsEntry(k)' /\ calls'[k].id = id]_vars

\* The ids of the requests written to the backend.
WrittenIds == {wire[i].id : i \in 1..Len(wire)} \ {NoId}

\* Request id is written, has not timed out and has had no response taken
\* from the table for it: its caller's receiver is alive and empty.
AwaitsFirstResponse(id) ==
    /\ id \in WrittenIds
    /\ id \notin timedOut
    /\ chan[id].rx /\ chan[id].val = NoResp

\* C31: a request's entry is in the table when its frame is written (unless
\* the reader has taken it already, for a response the backend sent with that
\* id ahead of the request), and it stays there until the reader takes it for
\* a response or the request times out, so a response to a written request
\* that has not timed out finds it.
C31_EntryBeforeWrite ==
    [][/\ Len(wire') > Len(wire) /\ wire'[Len(wire')].id # NoId =>
             LET id == wire'[Len(wire')].id IN
             /\ id \in DOMAIN chan
             /\ chan[id].val = NoResp => id \in DOMAIN pending /\ id \in DOMAIN pending'
       /\ \A id \in WrittenIds' :
             AwaitsFirstResponse(id)' => id \in DOMAIN pending' /\ pending'[id] = id]_vars

\* Two requests are written and neither has timed out: the reader has taken
\* the entry of one for its response, the entry of the other is in the table.
C31_Witness ==
    \E a, b \in WrittenIds :
       /\ a # b /\ timedOut = {} /\ reader = "running"
       /\ chan[a].rx /\ chan[a].val # NoResp /\ chan[a].val.id = a /\ a \notin DOMAIN pending
       /\ AwaitsFirstResponse(b) /\ b \in DOMAIN pending

\* The bytes the loop reads in this step.
LineTaken == SubSeq(mcpIn, mcpPos + 1, mcpPos')

\* C32: the front end's loop ends only at the end of its input or when a
\* write fails; a step that reads a blank line or a line that is no request
\* writes nothing and leaves the loop running; a step that reads a request
\* while stdout is writable writes the response to it.
C32_BlankLinesSkipped ==
    [][/\ mainLoop = "running" /\ mainLoop' = "exited" =>
             \/ mcpEof /\ mcpPos = Len(mcpIn)
             \/ stdoutBroken
       /\ mcpPos' > mcpPos /\ LineTaken \in {<<"\n">>, <<" ", "\n">>, <<"x", "\n">>} =>
             mainLoop' = "running" /\ mcpOut' = mcpOut
       /\ \A n \in 1..2 :
             mcpPos' > mcpPos /\ LineTaken = <<"{", DigitChars[n + 1], "}", "\n">>
                /\ ~stdoutBroken =>
                mainLoop' = "running" /\ mcpOut' = Append(mcpOut, <<"response", n>>)]_vars

====
